---- MODULE Spec2Model ----
(***************************************************************************)
(* Model of the wheelbuf crate (src/src/lib.rs): a fixed-capacity ring     *)
(* buffer without a read pointer (WheelBuf), its non-destructive iterator  *)
(* (WheelBufIter), its destructive drain (WheelBufDrain) and the           *)
(* core::fmt::Write adapter for char buffers.                              *)
(*                                                                         *)
(* Physical indices are 0-based as in the source: the backing store is a   *)
(* function 0..N-1 -> element.  Option<&I> is a sequence: <<>> is None and *)
(* <<e>> is Some(&e).  A Rust panic (slice index out of range, remainder   *)
(* by zero) is the flag "panic" of an operation's result.                  *)
(* usize arithmetic is modelled on unbounded naturals: every value here is *)
(* bounded by the capacity or by MaxCur, far below 2^64.                   *)
(***************************************************************************)
EXTENDS Integers, Sequences, FiniteSets, TLC

\* ---- bounds of the model ----
MaxCap == 3      \* capacities 0..MaxCap are explored
MaxPush == 4     \* longest recorded push history (pushes before the first drain step)
MaxStr == 2      \* longest text (in chars) given to write_str
MaxN == 3        \* largest argument given to nth
MaxCur == 3      \* nth is not called again once cur exceeds this

\* ---- element values: chars, as in the tests ----
Fill == 120                 \* 'x', the initial content of every slot
Elems == {72, 233}          \* 'H' (1 UTF-8 byte) and U+00E9 (2 UTF-8 bytes)

None == <<>>
Some(e) == <<e>>

Min(a, b) == IF a < b THEN a ELSE b

\* ---- WheelBuf ----
\* WheelBuf::new: head, tail and len are 0, data is the caller's storage.
New(data) == [data |-> data, head |-> 0, tail |-> 0, len |-> 0]

\* WheelBuf::capacity: the len() of the backing slice.
Capacity(w) == Cardinality(DOMAIN w.data)

\* Push with the length update written before the store (statement order bug).
Push_LenFirst(w, item) ==
  IF ~(w.head < Capacity(w))
  THEN [wb |-> [w EXCEPT !.len = w.len + 1], panic |-> TRUE]
  ELSE LET w1 == [w EXCEPT !.data[w.head] = item]
           w2 == IF w1.tail = w1.head /\ w1.len > 0
                 THEN [w1 EXCEPT !.tail = (w1.tail + 1) % Capacity(w1)]
                 ELSE w1
           w3 == [w2 EXCEPT !.head = (w2.head + 1) % Capacity(w2)]
           w4 == IF w3.len < Capacity(w3)
                 THEN [w3 EXCEPT !.len = w3.len + 1]
                 ELSE w3
       IN [wb |-> w4, panic |-> FALSE]

\* Push that never moves tail (eviction forgotten).
Push_NoEvict(w, item) ==
  IF ~(w.head < Capacity(w))
  THEN [wb |-> w, panic |-> TRUE]
  ELSE LET w1 == [w EXCEPT !.data[w.head] = item]
           w3 == [w1 EXCEPT !.head = (w1.head + 1) % Capacity(w1)]
           w4 == IF w3.len < Capacity(w3)
                 THEN [w3 EXCEPT !.len = w3.len + 1]
                 ELSE w3
       IN [wb |-> w4, panic |-> FALSE]

\* Push that does not wrap head around (off by one in the modulus).
Push_NoWrap(w, item) ==
  IF ~(w.head < Capacity(w))
  THEN [wb |-> w, panic |-> TRUE]
  ELSE LET w1 == [w EXCEPT !.data[w.head] = item]
           w2 == IF w1.tail = w1.head /\ w1.len > 0
                 THEN [w1 EXCEPT !.tail = (w1.tail + 1) % Capacity(w1)]
                 ELSE w1
           w3 == [w2 EXCEPT !.head = (w2.head + 1) % (Capacity(w2) + 1)]
           w4 == IF w3.len < Capacity(w3)
                 THEN [w3 EXCEPT !.len = w3.len + 1]
                 ELSE w3
       IN [wb |-> w4, panic |-> FALSE]

\* Push whose full test is tail == head alone, without len > 0.
Push_FullTestNoLen(w, item) ==
  IF ~(w.head < Capacity(w))
  THEN [wb |-> w, panic |-> TRUE]
  ELSE LET w1 == [w EXCEPT !.data[w.head] = item]
           w2 == IF w1.tail = w1.head
                 THEN [w1 EXCEPT !.tail = (w1.tail + 1) % Capacity(w1)]
                 ELSE w1
           w3 == [w2 EXCEPT !.head = (w2.head + 1) % Capacity(w2)]
           w4 == IF w3.len < Capacity(w3)
                 THEN [w3 EXCEPT !.len = w3.len + 1]
                 ELSE w3
       IN [wb |-> w4, panic |-> FALSE]

\* WheelBuf::push.  The store data[head] panics when head is out of range,
\* before anything is modified; a remainder by a zero capacity panics.
Push(w, item) ==
  IF ~(w.head < Capacity(w))
  THEN [wb |-> w, panic |-> TRUE]
  ELSE LET w1 == [w EXCEPT !.data[w.head] = item]
       IN IF Capacity(w1) = 0
          THEN [wb |-> w1, panic |-> TRUE]
          ELSE LET w2 == IF w1.tail = w1.head /\ w1.len > 0
                         THEN [w1 EXCEPT !.tail = (w1.tail + 1) % Capacity(w1)]
                         ELSE w1
                   w3 == [w2 EXCEPT !.head = (w2.head + 1) % Capacity(w2)]
                   w4 == IF w3.len < Capacity(w3)
                         THEN [w3 EXCEPT !.len = w3.len + 1]
                         ELSE w3
               IN [wb |-> w4, panic |-> FALSE]

\* ---- WheelBufDrain ----
\* Drain step that forgets the reset of head and tail at the end.
DrainNext_NoReset(w) ==
  IF w.len > 0
  THEN [wb |-> [w EXCEPT !.tail = (w.tail + 1) % Capacity(w),
                         !.len = w.len - 1],
        ret |-> Some(w.data[w.tail]), panic |-> FALSE]
  ELSE [wb |-> w, ret |-> None, panic |-> FALSE]

\* Drain step that yields the slot at head instead of the one at tail.
DrainNext_AtHead(w) ==
  IF w.len > 0
  THEN [wb |-> [w EXCEPT !.tail = (w.tail + 1) % Capacity(w),
                         !.len = w.len - 1],
        ret |-> Some(w.data[w.head]), panic |-> FALSE]
  ELSE [wb |-> [w EXCEPT !.head = 0, !.tail = 0], ret |-> None, panic |-> FALSE]

\* Drain step that advances tail by two.
DrainNext_SkipOne(w) ==
  IF w.len > 0
  THEN [wb |-> [w EXCEPT !.tail = (w.tail + 2) % Capacity(w),
                         !.len = w.len - 1],
        ret |-> Some(w.data[w.tail]), panic |-> FALSE]
  ELSE [wb |-> [w EXCEPT !.head = 0, !.tail = 0], ret |-> None, panic |-> FALSE]

\* Drain step that forgets to decrement len.
DrainNext_NoDec(w) ==
  IF w.len > 0
  THEN [wb |-> [w EXCEPT !.tail = (w.tail + 1) % Capacity(w)],
        ret |-> Some(w.data[w.tail]), panic |-> FALSE]
  ELSE [wb |-> [w EXCEPT !.head = 0, !.tail = 0], ret |-> None, panic |-> FALSE]

\* Drain step that resets head but not tail at the end.
DrainNext_ResetHeadOnly(w) ==
  IF w.len > 0
  THEN [wb |-> [w EXCEPT !.tail = (w.tail + 1) % Capacity(w),
                         !.len = w.len - 1],
        ret |-> Some(w.data[w.tail]), panic |-> FALSE]
  ELSE [wb |-> [w EXCEPT !.head = 0], ret |-> None, panic |-> FALSE]

\* Drain step that moves the element out, leaving the initial content.
DrainNext_Take(w) ==
  IF w.len > 0
  THEN [wb |-> [w EXCEPT !.data[w.tail] = Fill,
                         !.tail = (w.tail + 1) % Capacity(w),
                         !.len = w.len - 1],
        ret |-> Some(w.data[w.tail]), panic |-> FALSE]
  ELSE [wb |-> [w EXCEPT !.head = 0, !.tail = 0], ret |-> None, panic |-> FALSE]

\* Drain step with the variant commented out at lib.rs:163-168: when
\* tail == head, head follows tail.
DrainNext_HeadFollows(w) ==
  IF w.len > 0
  THEN LET t == (w.tail + 1) % Capacity(w)
       IN [wb |-> [w EXCEPT !.tail = t,
                            !.head = IF w.tail = w.head THEN t ELSE w.head,
                            !.len = w.len - 1],
           ret |-> Some(w.data[w.tail]), panic |-> FALSE]
  ELSE [wb |-> [w EXCEPT !.head = 0, !.tail = 0], ret |-> None, panic |-> FALSE]

\* WheelBufDrain::next.  buffer.len() is the capacity.
DrainNext(w) ==
  IF w.len > 0
  THEN IF ~(w.tail < Capacity(w)) \/ Capacity(w) = 0
       THEN [wb |-> w, ret |-> None, panic |-> TRUE]
       ELSE [wb |-> [w EXCEPT !.tail = (w.tail + 1) % Capacity(w),
                              !.len = w.len - 1],
             ret |-> Some(w.data[w.tail]), panic |-> FALSE]
  ELSE [wb |-> [w EXCEPT !.head = 0, !.tail = 0], ret |-> None, panic |-> FALSE]

\* ---- WheelBufIter ----
\* Iterator step that starts one slot after tail.
IterNext_OffByOne(w, cur) ==
  IF cur >= w.len
  THEN [ret |-> None, cur |-> cur, panic |-> FALSE]
  ELSE [ret |-> Some(w.data[(w.tail + cur + 1) % Capacity(w)]),
        cur |-> cur + 1, panic |-> FALSE]

\* Iterator step that indexes tail + cur without wrapping around.
IterNext_NoMod(w, cur) ==
  IF cur >= w.len
  THEN [ret |-> None, cur |-> cur, panic |-> FALSE]
  ELSE LET idx == w.tail + cur
       IN IF ~(idx < Capacity(w))
          THEN [ret |-> None, cur |-> cur + 1, panic |-> TRUE]
          ELSE [ret |-> Some(w.data[idx]), cur |-> cur + 1, panic |-> FALSE]

\* WheelBufIter::next.  cur is incremented before the slot is indexed.
IterNext(w, cur) ==
  IF cur >= w.len
  THEN [ret |-> None, cur |-> cur, panic |-> FALSE]
  ELSE IF Capacity(w) = 0
       THEN [ret |-> None, cur |-> cur + 1, panic |-> TRUE]
       ELSE LET idx == (w.tail + cur) % Capacity(w)
            IN IF ~(idx < Capacity(w))
               THEN [ret |-> None, cur |-> cur + 1, panic |-> TRUE]
               ELSE [ret |-> Some(w.data[idx]), cur |-> cur + 1, panic |-> FALSE]

\* nth that skips one position too few.
IterNth_OffByOne(w, cur, n) ==
  LET max_idx == w.len
      c1 == IF n > 1 THEN cur + Min(n - 1, max_idx) ELSE cur
  IN IterNext(w, c1)

\* nth that assigns the cursor instead of advancing it.
IterNth_Assign(w, cur, n) ==
  LET max_idx == w.len
      c1 == IF n > 0 THEN Min(n, max_idx) ELSE cur
  IN IterNext(w, c1)

\* WheelBufIter::nth.
IterNth(w, cur, n) ==
  LET max_idx == w.len
      c1 == IF n > 0 THEN cur + Min(n, max_idx) ELSE cur
  IN IterNext(w, c1)

\* wheel.iter().cloned().collect(): next() from cur until it returns None.
RECURSIVE CollectFrom(_, _)
CollectFrom(w, cur) ==
  LET r == IterNext(w, cur)
  IN IF r.panic \/ r.ret = None THEN <<>> ELSE r.ret \o CollectFrom(w, r.cur)

Collect(w) == CollectFrom(w, 0)

\* wheel.drain().cloned().collect(): the yielded elements and the final state.
RECURSIVE DrainAll(_)
DrainAll(w) ==
  LET r == DrainNext(w)
  IN IF r.panic \/ r.ret = None
     THEN [wb |-> r.wb, out |-> <<>>]
     ELSE LET rest == DrainAll(r.wb)
          IN [wb |-> rest.wb, out |-> r.ret \o rest.out]

\* ---- impl Write for WheelBuf<C, char> ----
\* A &str is a sequence of UTF-8 bytes; Utf8 is the encoding of one char.
Utf8(c) ==
  IF c < 128 THEN <<c>>
  ELSE IF c < 2048 THEN <<192 + (c \div 64), 128 + (c % 64)>>
  ELSE IF c < 65536
       THEN <<224 + (c \div 4096), 128 + ((c \div 64) % 64), 128 + (c % 64)>>
       ELSE <<240 + (c \div 262144), 128 + ((c \div 4096) % 64),
              128 + ((c \div 64) % 64), 128 + (c % 64)>>

RECURSIVE Str(_)
Str(cs) == IF cs = <<>> THEN <<>> ELSE Utf8(Head(cs)) \o Str(Tail(cs))

\* s.chars(): decodes the UTF-8 bytes of s into chars, in order.
RECURSIVE Chars(_)
Chars(s) ==
  IF s = <<>> THEN <<>>
  ELSE LET b == s[1]
           n == IF b < 128 THEN 1 ELSE IF b < 224 THEN 2 ELSE IF b < 240 THEN 3 ELSE 4
           c == IF n = 1 THEN b
                ELSE IF n = 2 THEN (b % 32) * 64 + (s[2] % 64)
                ELSE IF n = 3 THEN (b % 16) * 4096 + (s[2] % 64) * 64 + (s[3] % 64)
                ELSE (b % 8) * 262144 + (s[2] % 64) * 4096
                     + (s[3] % 64) * 64 + (s[4] % 64)
       IN <<c>> \o Chars(SubSeq(s, n + 1, Len(s)))

\* for c in ... { self.push(c) }: a panic in push ends the loop.
RECURSIVE PushEach(_, _)
PushEach(w, cs) ==
  IF cs = <<>> THEN [wb |-> w, panic |-> FALSE]
  ELSE LET r == Push(w, Head(cs))
       IN IF r.panic THEN r ELSE PushEach(r.wb, Tail(cs))

\* write_str that pushes the bytes of s instead of its chars.
WriteStr_Bytes(w, s) ==
  LET r == PushEach(w, s)
  IN [wb |-> r.wb, res |-> IF r.panic THEN "panic" ELSE "Ok", panic |-> r.panic]

\* write_str: pushes every char of s, then returns Ok(()).
WriteStr(w, s) ==
  LET r == PushEach(w, Chars(s))
  IN [wb |-> r.wb, res |-> IF r.panic THEN "panic" ELSE "Ok", panic |-> r.panic]

\* ---- state ----
VARIABLES
  wheel,      \* the WheelBuf: [data, head, tail, len]
  panicked,   \* TRUE once an operation has panicked; the program has ended
  iters,      \* the WheelBufIter values: [live, cur] for each iterator slot
  draining,   \* TRUE while a WheelBufDrain borrows the buffer
  fresh,      \* history: TRUE while the buffer has only been pushed to
  pushed,     \* history: while fresh, the elements pushed so far, in order
  last,       \* history: the last call, its arguments, result and pre-state
  dPre,       \* history: the buffer when the drain was created
  dYield,     \* history: the elements the drain has yielded
  dDone,      \* history: the drain has returned None
              \* (the drain histories are kept until the call after its drop)
  queue,      \* reference: a bounded FIFO queue fed the same pushes and drains
  twin        \* reference: for each iterator, the cursor of an iterator that
              \* calls next() n + 1 times wherever this one calls nth(n), and
              \* the result of its last call

vars == <<wheel, panicked, iters, draining, fresh, pushed, last, dPre, dYield, dDone,
          queue, twin>>

IterIds == {1, 2}

CharSeqs == UNION {[1..k -> Elems] : k \in 0..MaxStr}

\* The borrow checker: push, write_str and drain need &mut self, so no
\* iterator and no drain may be alive; iter needs &self, so no drain.
NoIter == \A i \in IterIds : ~iters[i].live
Idle == ~draining /\ NoIter

Call(op, id, arg, res, ret, c) ==
  [op |-> op, id |-> id, arg |-> arg, res |-> res, ret |-> ret,
   pre |-> wheel, c |-> c]

Tag(r) == IF r.panic THEN "panic" ELSE IF r.ret = None THEN "None" ELSE "Some"

\* The reference queue of capacity cap: a push onto a full queue drops the
\* oldest element.
RefPush(q, cap, item) ==
  IF Len(q) < cap THEN Append(q, item) ELSE Append(Tail(q), item)

RECURSIVE RefPushEach(_, _, _)
RefPushEach(q, cap, cs) ==
  IF cs = <<>> THEN q ELSE RefPushEach(RefPush(q, cap, Head(cs)), cap, Tail(cs))

\* k successive next() calls from cursor c: the last result and the cursor.
RECURSIVE Nexts(_, _, _)
Nexts(w, c, k) ==
  LET r == IterNext(w, c)
  IN IF k <= 1 THEN r ELSE Nexts(w, r.cur, k - 1)

\* The drain histories when there is no drain to speak of.
NoDrain(w) == dPre' = w /\ dYield' = <<>> /\ dDone' = FALSE

Init ==
  /\ \E n \in 0..MaxCap : wheel = New([i \in 0..(n - 1) |-> Fill])
  /\ panicked = FALSE
  /\ iters = [i \in IterIds |-> [live |-> FALSE, cur |-> 0]]
  /\ draining = FALSE
  /\ pushed = <<>>
  /\ fresh = TRUE
  /\ last = Call("new", 0, <<>>, "()", <<>>, 0)
  /\ dPre = wheel
  /\ dYield = <<>>
  /\ dDone = FALSE
  /\ queue = <<>>
  /\ twin = [cur |-> [i \in IterIds |-> 0], ret |-> None]

\* wheel.push(item)
PushAct ==
  /\ ~panicked /\ Idle
  /\ fresh => Len(pushed) < MaxPush
  /\ \E item \in Elems :
       LET r == Push(wheel, item)
       IN /\ wheel' = r.wb
          /\ panicked' = r.panic
          /\ pushed' = IF r.panic \/ ~fresh THEN pushed ELSE Append(pushed, item)
          /\ last' = Call("push", 0, <<item>>, IF r.panic THEN "panic" ELSE "()", <<>>, 0)
          /\ NoDrain(r.wb)
          /\ queue' = IF r.panic THEN queue ELSE RefPush(queue, Capacity(wheel), item)
  /\ UNCHANGED <<iters, draining, fresh, twin>>

\* wheel.write_str(s), s the UTF-8 text of the chars cs
WriteStrAct ==
  /\ ~panicked /\ Idle
  /\ \E cs \in CharSeqs :
       /\ fresh => Len(pushed) + Len(cs) <= MaxPush
       /\ LET r == WriteStr(wheel, Str(cs))
          IN /\ wheel' = r.wb
             /\ panicked' = r.panic
             /\ pushed' = IF r.panic \/ ~fresh THEN pushed ELSE pushed \o cs
             /\ last' = Call("write_str", 0, cs, r.res, <<>>, 0)
             /\ NoDrain(r.wb)
             /\ queue' = IF r.panic THEN queue
                         ELSE RefPushEach(queue, Capacity(wheel), cs)
  /\ UNCHANGED <<iters, draining, fresh, twin>>

\* let it = wheel.iter()
IterAct(i) ==
  /\ ~panicked /\ ~draining /\ ~iters[i].live
  /\ iters' = [iters EXCEPT ![i] = [live |-> TRUE, cur |-> 0]]
  /\ last' = Call("iter", i, <<>>, "()", <<>>, 0)
  /\ NoDrain(wheel)
  /\ twin' = [cur |-> [twin.cur EXCEPT ![i] = 0], ret |-> None]
  /\ UNCHANGED <<wheel, panicked, draining, pushed, fresh, queue>>

\* it.next() with one cursor shared by all iterators (a read pointer).
IterNextAct_SharedCursor(i) ==
  /\ ~panicked /\ iters[i].live
  /\ LET r == IterNext(wheel, iters[i].cur)
     IN /\ iters' = [j \in IterIds |->
                      IF iters[j].live THEN [iters[j] EXCEPT !.cur = r.cur]
                      ELSE iters[j]]
        /\ panicked' = r.panic
        /\ last' = Call("next", i, <<>>, Tag(r), r.ret, iters[i].cur)
  /\ LET t == IterNext(wheel, twin.cur[i])
     IN twin' = [cur |-> [twin.cur EXCEPT ![i] = t.cur], ret |-> t.ret]
  /\ UNCHANGED <<wheel, draining, pushed, fresh, dPre, dYield, dDone, queue>>

\* it.next()
IterNextAct(i) ==
  /\ ~panicked /\ iters[i].live
  /\ LET r == IterNext(wheel, iters[i].cur)
     IN /\ iters' = [iters EXCEPT ![i].cur = r.cur]
        /\ panicked' = r.panic
        /\ last' = Call("next", i, <<>>, Tag(r), r.ret, iters[i].cur)
  /\ LET t == IterNext(wheel, twin.cur[i])
     IN twin' = [cur |-> [twin.cur EXCEPT ![i] = t.cur], ret |-> t.ret]
  /\ UNCHANGED <<wheel, draining, pushed, fresh, dPre, dYield, dDone, queue>>

\* it.nth(n)
IterNthAct(i) ==
  /\ ~panicked /\ iters[i].live
  /\ iters[i].cur <= MaxCur
  /\ \E n \in 0..MaxN :
       LET r == IterNth(wheel, iters[i].cur, n)
           t == Nexts(wheel, twin.cur[i], n + 1)
       IN /\ iters' = [iters EXCEPT ![i].cur = r.cur]
          /\ panicked' = r.panic
          /\ last' = Call("nth", i, <<n>>, Tag(r), r.ret, iters[i].cur)
          /\ twin' = [cur |-> [twin.cur EXCEPT ![i] = t.cur], ret |-> t.ret]
  /\ UNCHANGED <<wheel, draining, pushed, fresh, dPre, dYield, dDone, queue>>

\* the iterator goes out of scope
IterDropAct(i) ==
  /\ ~panicked /\ iters[i].live
  /\ iters' = [iters EXCEPT ![i] = [live |-> FALSE, cur |-> 0]]
  /\ last' = Call("iter_drop", i, <<>>, "()", <<>>, iters[i].cur)
  /\ twin' = [cur |-> [twin.cur EXCEPT ![i] = 0], ret |-> None]
  /\ UNCHANGED <<wheel, panicked, draining, pushed, fresh, dPre, dYield, dDone, queue>>

\* let drain = wheel.drain()
DrainAct ==
  /\ ~panicked /\ Idle
  /\ draining' = TRUE
  /\ dPre' = wheel
  /\ dYield' = <<>>
  /\ dDone' = FALSE
  /\ last' = Call("drain", 0, <<>>, "()", <<>>, 0)
  /\ UNCHANGED <<wheel, panicked, iters, pushed, fresh, queue, twin>>

\* drain.next()
DrainNextAct ==
  /\ ~panicked /\ draining
  /\ LET r == DrainNext(wheel)
     IN /\ wheel' = r.wb
        /\ panicked' = r.panic
        /\ dYield' = dYield \o r.ret
        /\ dDone' = (dDone \/ (~r.panic /\ r.ret = None))
        /\ last' = Call("drain_next", 0, <<>>, Tag(r), r.ret, 0)
  /\ fresh' = FALSE
  /\ pushed' = <<>>
  /\ queue' = IF queue # <<>> THEN Tail(queue) ELSE queue
  /\ UNCHANGED <<iters, draining, dPre, twin>>

\* the drain goes out of scope
DrainDropAct ==
  /\ ~panicked /\ draining
  /\ draining' = FALSE
  /\ last' = Call("drain_drop", 0, <<>>, "()", <<>>, 0)
  /\ UNCHANGED <<wheel, panicked, iters, pushed, fresh, dPre, dYield, dDone, queue, twin>>

Next ==
  \/ PushAct
  \/ WriteStrAct
  \/ \E i \in IterIds : IterAct(i)
  \/ \E i \in IterIds : IterNextAct(i)
  \/ \E i \in IterIds : IterNthAct(i)
  \/ \E i \in IterIds : IterDropAct(i)
  \/ DrainAct
  \/ DrainNextAct
  \/ DrainDropAct

Spec == Init /\ [][Next]_vars

\* ---- properties ----
N == Capacity(wheel)

\* the last k elements of the sequence q
LastN(q, k) == SubSeq(q, Len(q) - k + 1, Len(q))

\* the result of the k-th of k successive next() calls from cursor c
RECURSIVE NextTimes(_, _, _)
NextTimes(w, c, k) ==
  LET r == IterNext(w, c)
  IN IF k <= 1 THEN r.ret ELSE NextTimes(w, r.cur, k - 1)

\* C1: after k <= N pushes on a fresh buffer of capacity N >= 1, len() is k
\* and a forward iteration yields the k pushed elements in push order.
C1_PushesWithinCapacity ==
  (fresh /\ N >= 1 /\ Len(pushed) <= N) =>
    /\ ~panicked
    /\ wheel.len = Len(pushed)
    /\ Collect(wheel) = pushed

C1_Witness ==
  /\ fresh /\ last.op = "push" /\ N >= 2
  /\ Len(pushed) = N /\ pushed[1] # pushed[2]
  /\ Collect(wheel) = pushed

\* C2: after k > N pushes on a fresh buffer of capacity N >= 1, len() is N
\* and a forward iteration yields the last N pushed elements, oldest first.
C2_PushesBeyondCapacity ==
  (fresh /\ N >= 1 /\ Len(pushed) > N) =>
    /\ ~panicked
    /\ wheel.len = N
    /\ Collect(wheel) = LastN(pushed, N)

C2_Witness ==
  /\ fresh /\ last.op = "push" /\ N >= 2
  /\ Len(pushed) >= N + 2
  /\ pushed[Len(pushed)] # pushed[Len(pushed) - N]
  /\ Collect(wheel) = LastN(pushed, N)

\* C3: a drain run until next() returns None has yielded what a forward
\* iteration of the buffer at drain() would have yielded, and leaves
\* len() = 0, head() = 0 and tail() = 0.
C3_DrainToExhaustion ==
  (last.op = "drain_next" /\ last.res = "None") =>
    /\ dYield = Collect(dPre)
    /\ wheel.len = 0 /\ wheel.head = 0 /\ wheel.tail = 0

C3_Witness ==
  /\ last.op = "drain_next" /\ last.res = "None"
  /\ dPre.len >= 2 /\ dPre.tail + dPre.len > Capacity(dPre)
  /\ dPre.len < Capacity(dPre)
  /\ dYield = Collect(dPre) /\ dYield[1] # dYield[2]

\* C4: a drain dropped after yielding j < len elements has removed exactly
\* the j oldest ones: len() went down by j, and a forward iteration or a new
\* drain yields the remaining len - j elements in their original order.
C4_PartialDrain ==
  (last.op = "drain_drop" /\ Len(dYield) < dPre.len) =>
    LET all == Collect(dPre)
        j == Len(dYield)
    IN /\ Len(all) = dPre.len
       /\ dYield = SubSeq(all, 1, j)
       /\ wheel.len = dPre.len - j
       /\ Collect(wheel) = SubSeq(all, j + 1, Len(all))
       /\ DrainAll(wheel).out = SubSeq(all, j + 1, Len(all))

C4_Witness ==
  /\ last.op = "drain_drop"
  /\ Len(dYield) >= 1 /\ wheel.len >= 2
  /\ dPre.tail + dPre.len > Capacity(dPre)
  /\ Collect(wheel) = SubSeq(Collect(dPre), Len(dYield) + 1, dPre.len)

\* C5: nth(n) returns what the (n+1)-th of n+1 successive next() calls from
\* the same cursor position returns (the same element, or None).
C5_NthIsRepeatedNext ==
  (last.op = "nth") =>
    /\ ~panicked
    /\ last.ret = NextTimes(wheel, last.c, last.arg[1] + 1)

C5_Witness ==
  /\ last.op = "nth" /\ last.arg[1] >= 1 /\ last.c >= 1
  /\ last.res = "Some"
  /\ last.ret = NextTimes(wheel, last.c, last.arg[1] + 1)

\* C6: for capacity N >= 1, in every state reachable by pushes and drain
\* steps: head < N, tail < N, len <= N, head = (tail + len) mod N, and
\* len = N implies head = tail.
C6_IndexInvariant ==
  (N >= 1) =>
    /\ wheel.head \in 0..(N - 1)
    /\ wheel.tail \in 0..(N - 1)
    /\ wheel.len \in 0..N
    /\ wheel.head = (wheel.tail + wheel.len) % N
    /\ (wheel.len = N => wheel.head = wheel.tail)

C6_Witness ==
  /\ ~fresh /\ last.op = "push" /\ N >= 2
  /\ wheel.len = N /\ wheel.tail > 0 /\ wheel.head = wheel.tail

\* C7 as stated: every state with len = 0 that is observable after a drain
\* has been dropped has head() = 0 and tail() = 0, whether or not next() was
\* called again after the last element was yielded.
C7_Original ==
  (last.op = "drain_drop" /\ wheel.len = 0) =>
    (wheel.head = 0 /\ wheel.tail = 0)

\* C7 amended: head and tail are reset to 0 by the drain step that finds
\* len = 0, not by the one that brings len to 0.  A state with len = 0 left
\* by a dropped drain has head() = 0 and tail() = 0 if that drain had
\* returned None; otherwise head() = tail() = the head at drain().
C7_ResetOnNone ==
  (last.op = "drain_drop" /\ wheel.len = 0) =>
    IF dDone
    THEN wheel.head = 0 /\ wheel.tail = 0
    ELSE wheel.head = dPre.head /\ wheel.tail = dPre.head

C7_Witness ==
  /\ last.op = "drain_drop" /\ wheel.len = 0
  /\ dDone /\ dPre.len >= 1 /\ dPre.head # 0
  /\ wheel.head = 0 /\ wheel.tail = 0

\* C8: push on a buffer of capacity N >= 1 never panics, and the iterator's
\* next()/nth() and the drain's next() never panic for any capacity,
\* 0 included: only a push (alone or within write_str) on capacity 0 does.
C8_NoPanic ==
  /\ panicked => (N = 0 /\ last.op \in {"push", "write_str"})
  /\ last.op \in {"next", "nth", "drain_next"} => last.res \in {"Some", "None"}
  /\ (last.op = "push" /\ N >= 1) => last.res = "()"

C8_Witness ==
  /\ ~panicked /\ last.op = "next" /\ last.res = "Some"
  /\ wheel.tail + last.c >= N
  /\ wheel.len = N

\* C9: a buffer over zero-length storage is constructed with head = tail =
\* len = 0 and capacity() = 0, and a push on it panics before head, tail or
\* len is modified.
C9_ZeroCapacity ==
  (N = 0) =>
    /\ (last.op = "new" =>
          ~panicked /\ wheel.head = 0 /\ wheel.tail = 0 /\ wheel.len = 0)
    /\ (last.op = "push" =>
          /\ panicked /\ last.res = "panic"
          /\ wheel.head = last.pre.head
          /\ wheel.tail = last.pre.tail
          /\ wheel.len = last.pre.len)

C9_Witness ==
  /\ N = 0 /\ last.op = "push" /\ panicked
  /\ wheel.head = 0 /\ wheel.tail = 0 /\ wheel.len = 0

\* C10: write_str(s) on a char buffer of capacity N >= 1 returns Ok and
\* leaves the state that pushing each char of s in order produces; a forward
\* iteration then yields the last min(N, previous len + chars) chars written.
C10_WriteStr ==
  (last.op = "write_str" /\ N >= 1) =>
    LET cs == last.arg
        k == Min(N, last.pre.len + Len(cs))
    IN /\ ~panicked /\ last.res = "Ok"
       /\ wheel = PushEach(last.pre, cs).wb
       /\ Collect(wheel) = LastN(Collect(last.pre) \o cs, k)

C10_Witness ==
  /\ last.op = "write_str" /\ N >= 2 /\ last.res = "Ok"
  /\ Len(last.arg) = 2 /\ last.arg[1] = 233 /\ last.arg[2] = 72
  /\ last.pre.len = N
  /\ Collect(wheel) = LastN(Collect(last.pre) \o last.arg, N)

\* C11: for N >= 1 the full test of push (tail = head and len > 0) holds
\* exactly when len = N; a push moves tail to (tail + 1) mod N if the buffer
\* held N elements and leaves tail unchanged otherwise; a push into an empty
\* buffer, at any head position, gives len = 1.
C11_FullTest ==
  (N >= 1) =>
    /\ ((wheel.tail = wheel.head /\ wheel.len > 0) <=> wheel.len = N)
    /\ (last.op = "push" =>
          /\ wheel.tail = IF last.pre.len = N
                          THEN (last.pre.tail + 1) % N
                          ELSE last.pre.tail
          /\ (last.pre.len = 0 => wheel.len = 1 /\ Collect(wheel) = last.arg))

C11_Witness ==
  /\ last.op = "push" /\ N >= 2
  /\ last.pre.len = 0 /\ last.pre.head # 0 /\ last.pre.tail = last.pre.head
  /\ wheel.tail = last.pre.tail /\ wheel.len = 1

\* C12: a drain step made while len > 0 yields the element at physical
\* index tail, sets tail to (tail + 1) mod N, decreases len by 1 and leaves
\* head unchanged.
C12_DrainStep ==
  (last.op = "drain_next" /\ last.pre.len > 0) =>
    /\ last.res = "Some"
    /\ last.ret = Some(last.pre.data[last.pre.tail])
    /\ wheel.tail = (last.pre.tail + 1) % N
    /\ wheel.len = last.pre.len - 1
    /\ wheel.head = last.pre.head

C12_Witness ==
  /\ last.op = "drain_next" /\ last.res = "Some"
  /\ last.pre.len = N /\ N >= 2 /\ last.pre.head # 0
  /\ last.pre.tail = N - 1 /\ wheel.tail = 0
  /\ wheel.head = last.pre.head

\* C13: a drain created on a buffer with len = L yields exactly L elements
\* and then None; every further next() returns None as well.
C13_DrainTerminates ==
  (last.op = "drain_next") =>
    /\ Len(dYield) + wheel.len = dPre.len
    /\ (last.res = "Some" => ~dDone /\ Len(dYield) <= dPre.len)
    /\ (last.res = "None" => dDone /\ Len(dYield) = dPre.len)
    /\ DrainNext(wheel).ret = None <=> Len(dYield) = dPre.len

C13_Witness ==
  /\ last.op = "drain_next" /\ last.res = "None"
  /\ last.pre.head = 0 /\ last.pre.tail = 0 /\ last.pre.len = 0
  /\ dPre.len >= 2 /\ Len(dYield) = dPre.len

\* C14: a drain step made while len = 0 returns None, sets head = 0 and
\* tail = 0 and leaves len = 0; a further step returns None again and
\* leaves that state as it is.
C14_DrainOnEmpty ==
  (last.op = "drain_next" /\ last.pre.len = 0) =>
    /\ last.res = "None" /\ last.ret = None
    /\ wheel.head = 0 /\ wheel.tail = 0 /\ wheel.len = 0
    /\ wheel.data = last.pre.data
    /\ DrainNext(wheel).wb = wheel
    /\ DrainNext(wheel).ret = None

C14_Witness ==
  /\ last.op = "drain_next" /\ last.pre.len = 0
  /\ last.pre.head # 0 /\ last.pre.tail # 0
  /\ wheel.head = 0 /\ wheel.tail = 0

\* C15: no drain operation changes the backing storage: during a drain and
\* after its drop every slot holds the value it held at drain().
C15_DrainKeepsStorage ==
  /\ (draining \/ last.op = "drain_drop") => wheel.data = dPre.data
  /\ (last.op = "drain_next") => wheel.data = last.pre.data

C15_Witness ==
  /\ last.op = "drain_drop" /\ dDone /\ dPre.len >= 2
  /\ wheel.data = dPre.data
  /\ \E i \in DOMAIN wheel.data : wheel.data[i] # Fill

IterOps == {"iter", "next", "nth", "iter_drop"}

\* C16: iter(), next() and nth() leave head, tail, len and the storage
\* unchanged; a call on one iterator leaves every other iterator's cursor
\* alone; every iterator starts at the oldest element and its k-th next()
\* yields the k-th element of the buffer whatever the other cursors are.
C16_IterationIsReadOnly ==
  [][ (last'.op \in IterOps) =>
        /\ wheel' = wheel
        /\ \A j \in IterIds \ {last'.id} : iters'[j] = iters[j]
        /\ (last'.op = "iter" => iters'[last'.id].cur = 0)
        /\ (last'.op = "next" =>
              /\ last'.c = iters[last'.id].cur
              /\ IF last'.c < wheel.len
                 THEN /\ last'.ret = Some(Collect(wheel)[last'.c + 1])
                      /\ iters'[last'.id].cur = last'.c + 1
                 ELSE last'.ret = None) ]_vars

C16_Witness ==
  /\ last.op = "next" /\ last.res = "Some" /\ last.id = 2
  /\ iters[1].live /\ iters[2].live
  /\ iters[1].cur > iters[2].cur /\ iters[2].cur >= 2
  /\ wheel.tail # 0

\* C17 as stated: the cursor of a forward iterator stays in [0, len] and
\* equals the number of logical positions already yielded or skipped (the
\* cursor of an iterator that made the same advance by next() calls only).
C17_CursorInRange ==
  \A i \in IterIds :
    iters[i].live =>
      /\ iters[i].cur \in 0..wheel.len
      /\ iters[i].cur = twin.cur[i]

\* C18: the buffer refines the bounded FIFO queue of capacity N that drops
\* its oldest element on a push when full: after every step len() is the
\* queue's length and a forward iteration yields the queue's contents, and
\* every drain step yields the queue's front element (None when empty).
C18_RefinesFifo ==
  /\ [](N >= 1 => (~panicked /\ wheel.len = Len(queue) /\ Collect(wheel) = queue))
  /\ [][ (last'.op = "drain_next") =>
            last'.ret = IF queue = <<>> THEN None ELSE Some(Head(queue)) ]_vars

C18_Witness ==
  /\ last.op = "push" /\ N >= 2 /\ ~fresh
  /\ last.pre.len = 0 /\ last.pre.head = last.pre.tail /\ last.pre.tail # 0
  /\ queue = last.arg /\ Collect(wheel) = queue

\* C19: from an nth(n) on, every next() and nth() of the iterator returns
\* what the same call returns on an iterator that made n + 1 next() calls
\* instead, also when the two cursors differ.
C19_NthObservablyNext ==
  (last.op \in {"next", "nth"}) => last.ret = twin.ret

C19_Witness ==
  /\ last.op = "nth" /\ wheel.len >= 2
  /\ last.c > wheel.len /\ twin.cur[last.id] = wheel.len
  /\ iters[last.id].cur > twin.cur[last.id]
  /\ last.ret = twin.ret
====
